---- MODULE Spec2Model ----
(***************************************************************************)
(* A model of the bendsql client core:                                     *)
(*   - core/src/client.rs     APIClient: the session store, query,         *)
(*                            query_page, wait_for_query, query_wait,      *)
(*                            insert_with_stage            (SpecHttp)      *)
(*                            query and query_page over a client with      *)
(*                            settings                     (SpecMerge)     *)
(*                            upload_to_stage              (SpecStage)     *)
(*                            query, query_page, kill_query and the        *)
(*                            warehouse header             (SpecHeaders)   *)
(*                            from_dsn                     (SpecDsn)       *)
(*                            tasks sharing the client and its three       *)
(*                            session mutexes              (SpecSession)   *)
(*                            the same under a fair Mutex                  *)
(*                                                     (SpecSessionFair)   *)
(*   - driver/src/flight_sql.rs  FlightSQLConnection: handshake, exec,     *)
(*                            query_iter_ext               (SpecFlight)    *)
(*                            the same under a fair Mutex                  *)
(*                                                      (SpecFlightFair)   *)
(*                            FlightSQLRows::poll_next     (SpecRows)      *)
(*                            query_row, get_presigned_url (SpecUrl)       *)
(* Option<T> is a sequence of length at most one: None is << >> and        *)
(* Some(v) is << v >>.  A BTreeMap<String, String> is a function whose     *)
(* domain is a set of keys.                                                *)
(***************************************************************************)
EXTENDS Integers, Sequences, FiniteSets, TLC

VARIABLES
    \* ---- APIClient (client.rs) ----
    database,           \* APIClient.database: Option<String>
    warehouse,          \* APIClient.warehouse: Option<String>
    session_settings,   \* APIClient.session_settings: BTreeMap<String, String>
    op,                 \* the public operation the task is running
    pc,                 \* where the task is suspended: idle, post, get, put,
                        \* presigned_put, kill, done
    req,                \* the request in flight (the one being awaited)
    retries,            \* query / insert_with_stage: `let mut retries`
    delays,             \* query_page: delays left in retry_strategy
    wfq,                \* wait_for_query locals: schema, data, and whether
                        \* the page awaited is the one fetched before the loop
    result,             \* what the operation returned
    hist,               \* history of the running operation (not program state)
    \* ---- FlightSQLConnection (flight_sql.rs) ----
    handshaked,         \* FlightSQLConnection.handshaked: the flag
    hs_lock,            \* owner of the handshaked mutex
    cl_lock,            \* owner of the client mutex
    tpc,                \* per task: position in exec / query_iter_ext
    top,                \* per task: the operation it runs
    tops,               \* per task: operations started so far
    net,                \* history of the network calls of the connection
    \* ---- FlightSQLRows (flight_sql.rs) ----
    rows,               \* FlightSQLRows.rows: VecDeque<Row>
    data,               \* state of the underlying Streaming<FlightData>
    frames,             \* history: the frames pulled from `data`, in order
    out,                \* history: the results of poll_next, in order
    presigned,          \* what get_presigned_url returned
    \* ---- APIClient: configuration, and the store shared by tasks ----
    presigned_url_disabled, \* APIClient.presigned_url_disabled: bool
    dsn_given,          \* from_dsn: the connection string given
    parsed,             \* from_dsn: what it returned
    locks,              \* owner of each of the three session mutexes
    qt                  \* per task sharing the client: position and locals

httpTask   == << op, pc, req, retries, delays, wfq, result, hist >>
httpVars   == << database, warehouse, session_settings, httpTask >>
flightVars == << handshaked, hs_lock, cl_lock, tpc, top, tops, net >>
rowsVars   == << rows, data, frames, out >>
dsnVars    == << dsn_given, parsed >>
lockVars   == << locks, qt >>
vars       == << httpVars, flightVars, rowsVars, presigned, presigned_url_disabled,
                 dsnVars, lockVars >>

\* What the actions of one component leave alone: the configuration of the
\* client and the state of the other components.
outsideHttp   == << flightVars, rowsVars, presigned, presigned_url_disabled,
                    dsnVars, lockVars >>
outsideFlight == << httpVars, rowsVars, presigned, presigned_url_disabled,
                    dsnVars, lockVars >>
outsideRows   == << httpVars, flightVars, presigned_url_disabled, dsnVars, lockVars >>

(***************************************************************************)
(* Option and BTreeMap                                                     *)
(***************************************************************************)
None == << >>
Some(v) == << v >>
IsSome(o) == o # << >>
Unwrap(o) == o[1]

EmptyMap == [k \in {} |-> ""]

\* BTreeMap::insert: the key is added, or its value replaced.
insert_alone(m, k, v) == [kk \in {k} |-> v]

insert(m, k, v) == [kk \in (DOMAIN m) \cup {k} |-> IF kk = k THEN v ELSE m[kk]]

\* The setting keys of the model in the order a BTreeMap iterates them.
SortedKeys == << "warehouse", "x", "y" >>

(***************************************************************************)
(* The session store: database, warehouse, session_settings.  A store is   *)
(* the record of the three fields; the actions read and write the three    *)
(* variables through it.                                                   *)
(***************************************************************************)
Store == [database |-> database, warehouse |-> warehouse,
          settings |-> session_settings]

\* from_dsn, one query pair: the arms of `match k.as_ref()`.  A client is
\* the record under construction; err is the Err from_dsn returns early
\* with.  (The pagination, tenant and CA file arms set fields that nothing
\* modelled here reads.)
dsn_pair(client, k, v) ==
    CASE k = "warehouse" -> [client EXCEPT !.warehouse = Some(v)]
      [] k = "sslmode" ->
            IF v = "disable" THEN [client EXCEPT !.scheme = "http"] ELSE client
      [] k = "presigned_url_disabled" ->
            IF v \in {"true", "1"}
            THEN [client EXCEPT !.presigned_url_disabled = TRUE]
            ELSE IF v \in {"false", "0"}
            THEN [client EXCEPT !.presigned_url_disabled = FALSE]
            ELSE [client EXCEPT !.err = Some("BadArgument")]
      [] OTHER -> [client EXCEPT !.settings = insert(@, k, v)]

RECURSIVE dsn_pairs(_, _, _)
dsn_pairs(client, pairs, i) ==
    IF i > Len(pairs) \/ IsSome(client.err) THEN client
    ELSE dsn_pairs(dsn_pair(client, pairs[i][1], pairs[i][2]), pairs, i + 1)

\* APIClient::default, and `let mut scheme = "https"`.
default_client == [host |-> "localhost", port |-> 8000, database |-> None,
                   warehouse |-> None, settings |-> EmptyMap,
                   presigned_url_disabled |-> FALSE, scheme |-> "https",
                   endpoint |-> [scheme |-> "http", host |-> "localhost", port |-> 8080],
                   err |-> None]

\* from_dsn, client.rs 126-133: `match u.port()`.
port_default_only(explicit, scheme) == IF scheme = "http" THEN 80 ELSE 443

port_of(explicit, scheme) ==
    IF IsSome(explicit) THEN Unwrap(explicit)
    ELSE IF scheme = "http" THEN 80 ELSE 443

\* from_dsn: the host, the path gives the database, the query pairs the
\* rest, then the port and the endpoint "{scheme}://{host}:{port}".  The
\* connection string is a URL that parses, of a scheme with no default
\* port of its own (databend://).
from_dsn(dsn) ==
    LET withdb == [default_client EXCEPT
                     !.host = dsn.host,
                     !.database = IF dsn.path = "" THEN None ELSE Some(dsn.path)]
        c == dsn_pairs(withdb, dsn.pairs, 1)
        p == port_of(dsn.port, c.scheme)
    IN IF IsSome(c.err) THEN c
       ELSE [c EXCEPT !.port = p,
                      !.endpoint = [scheme |-> c.scheme, host |-> c.host, port |-> p]]

\* handle_session, one (k, v) of the delta's settings.
route_setting_dup(store, k, v) ==
    IF k = "warehouse"
    THEN [store EXCEPT !.warehouse = Some(v), !.settings = insert(@, k, v)]
    ELSE [store EXCEPT !.settings = insert(@, k, v)]

route_setting(store, k, v) ==
    IF k = "warehouse"
    THEN [store EXCEPT !.warehouse = Some(v)]
    ELSE [store EXCEPT !.settings = insert(@, k, v)]

\* handle_session: `for (k, v) in settings`, in the map's key order.
RECURSIVE apply_settings(_, _, _)
apply_settings(store, settings, i) ==
    IF i > Len(SortedKeys) THEN store
    ELSE LET k == SortedKeys[i]
         IN IF k \in DOMAIN settings
            THEN apply_settings(route_setting(store, k, settings[k]), settings, i + 1)
            ELSE apply_settings(store, settings, i + 1)

handle_session(store, session) ==
    IF ~IsSome(session) THEN store
    ELSE LET s  == Unwrap(session)
             s1 == IF IsSome(s.database)
                   THEN [store EXCEPT !.database = s.database]
                   ELSE store
         IN IF IsSome(s.settings)
            THEN apply_settings(s1, Unwrap(s.settings), 1)
            ELSE s1

\* make_session: the snapshot embedded in a request, None when vacuous.
make_session(store) ==
    IF ~IsSome(store.database) /\ DOMAIN store.settings = {}
    THEN None
    ELSE Some([database |-> store.database,
               settings |-> IF DOMAIN store.settings = {}
                            THEN None ELSE Some(store.settings)])

make_headers_cached(store) == IF IsSome(store.warehouse) THEN Some("wh") ELSE None

\* make_headers: the X-DATABEND-WAREHOUSE header, read from the store.
make_headers(store) == store.warehouse

(***************************************************************************)
(* The inputs of the HTTP driver: connection strings and server replies.   *)
(***************************************************************************)
\* Most continuation cursors the server hands out during one operation.
MaxPages == 2
\* Most query pairs of a connection string.
MaxDsnPairs == 2

DsnPairs == { << "warehouse", "wh" >>, << "x", "0" >>, << "sslmode", "disable" >> }
Host == "app.databend.com"
Dsns == [host : {Host}, port : {None}, path : {"", "test"},
         pairs : UNION {[1..n -> DsnPairs] : n \in 0..MaxDsnPairs}]

\* Connection strings that set up to two settings.
SettingDsns == [host : {Host}, port : {None}, path : {""},
                pairs : UNION {[1..n -> {<< "x", "0" >>, << "y", "0" >>}] :
                                  n \in 0..MaxDsnPairs}]

\* Connection strings with an explicit port, and with the pairs that set
\* the TLS mode and the upload path.
MorePairs == { << "sslmode", "require" >>, << "presigned_url_disabled", "true" >>,
               << "presigned_url_disabled", "0" >>,
               << "presigned_url_disabled", "maybe" >> }
Ports == {None, Some(80), Some(8000)}
AllDsns == [host : {Host}, port : Ports, path : {"", "test"},
            pairs : UNION {[1..n -> DsnPairs \cup MorePairs] : n \in 0..MaxDsnPairs}]

\* StatusCode::OK, StatusCode::SERVICE_UNAVAILABLE; the statuses other than
\* OK the server answers with: 503 and one other failure.
OK == 200
SERVICE_UNAVAILABLE == 503
FailStatuses == {SERVICE_UNAVAILABLE, 500}

Schemas == {"s1", "s2"}
Pages == { << >>, << "r1" >>, << "r2", "r3" >> }
NextUri == "/v1/query/q/page/n"
SessionDeltas ==
    { None,
      Some([database |-> Some("db2"), settings |-> None]),
      Some([database |-> None,
            settings |-> Some([k \in {"warehouse", "x"} |->
                                  IF k = "warehouse" THEN "wh2" ELSE "1"])]) }

\* QueryResponse: a decoded response body.
OkBodies == [schema : Schemas, data : Pages, next_uri : {None, Some(NextUri)},
             error : {None}, session : SessionDeltas]
ErrBodies == [schema : {"s1"}, data : {<< >>}, next_uri : {None},
              error : {Some(1065)},
              session : {None, Some([database |-> Some("db2"), settings |-> None])}]
Bodies == OkBodies \cup ErrBodies

\* What the server answers a PRESIGN UPLOAD statement with.  A row is named
\* by a string; Columns gives its columns: put3 is a well-formed presign row,
\* get3 names another method, put2 lacks the URL, putx has headers that are
\* not a JSON object.
Columns(r) ==
    CASE r = "put3" -> << "PUT", "{}", "https://s3/stage" >>
      [] r = "get3" -> << "GET", "{}", "https://s3/stage" >>
      [] r = "put2" -> << "PUT", "{}" >>
      [] r = "putx" -> << "PUT", "x", "https://s3/stage" >>
      [] OTHER -> << r >>
PresignPages == { << >>, << "put3" >>, << "get3" >>, << "put2" >>, << "putx" >> }
PresignBodies == [schema : {"s1"}, data : PresignPages,
                  next_uri : {None, Some(NextUri)}, error : {None}, session : {None}]

\* The bodies the server may answer the requests of operation o with.
BodiesFor(o) == IF o = "upload_to_stage" THEN PresignBodies \cup ErrBodies ELSE Bodies

NoResp == [schema |-> "", data |-> << >>, next_uri |-> None, error |-> None,
           session |-> None]
NoReq == [method |-> "", uri |-> "", sql |-> "", warehouse |-> None, session |-> None]
NoWfq == [schema |-> "", data |-> << >>, first |-> FALSE]

\* The texts of the body of a reply whose status is not OK.
Texts == {"busy", "failed"}

\* Result<QueryResponse>.  The kinds of Err: InvalidResponse and InvalidPage
\* (with the status and the body's text, or the embedded error's code),
\* Request, Transport (send() failed), Decode (json() or
\* serde_json::from_str failed) and Upload (the presigned PUT failed), the
\* last three passed on by `?`.
NoResult == [tag |-> "None", kind |-> "", code |-> 0, text |-> "", resp |-> NoResp]
Ok(resp) == [tag |-> "Ok", kind |-> "", code |-> 0, text |-> "", resp |-> resp]
ErrText(kind, code, text) ==
    [tag |-> "Err", kind |-> kind, code |-> code, text |-> text, resp |-> NoResp]
Err(kind, code) == ErrText(kind, code, "")

\* client.rs 224-226 and 253-255: the error embedded in a decoded body, as
\* query and as query_page return it.
embedded_error_swapped(method, code) ==
    IF method = "POST" THEN Err("InvalidPage", code) ELSE Err("InvalidResponse", code)

embedded_error(method, code) ==
    IF method = "POST" THEN Err("InvalidResponse", code) ELSE Err("InvalidPage", code)

\* The history of one operation: POSTs sent, GETs sent for the page being
\* fetched, statuses and cursors received, pages asked for (query_page
\* calls), the rows received (initial response first),
\* the schema handed to wait_for_query, and the store as the deltas of the
\* error-free responses received so far make it.
\* Further: which request's body carried an embedded error, the text of
\* the last body whose status was not OK, the schema of the last page
\* fetched, and the PUTs sent (to v1/upload_to_stage, to a presigned URL).
NoHist == [posts |-> 0, gets |-> 0, statuses |-> << >>, cursors |-> 0,
           pages |-> 0, received |-> << >>, schema0 |-> "",
           merged |-> [database |-> None, warehouse |-> None, settings |-> EmptyMap],
           embedded |-> None, text |-> "", page_schema |-> "",
           direct_puts |-> 0, presigned_puts |-> 0]
StartHist(store) == [NoHist EXCEPT !.merged = store]

\* A reply may carry a cursor only while the server has pages left.
MayCarry(b) == IsSome(b.next_uri) => hist.cursors < MaxPages

SawBody(h, b) ==
    [h EXCEPT !.cursors = IF IsSome(b.next_uri) THEN @ + 1 ELSE @,
              !.received = @ \o b.data,
              !.embedded = IF IsSome(b.error)
                           THEN Some([method |-> req.method, code |-> Unwrap(b.error)])
                           ELSE @,
              !.page_schema = IF req.method = "GET" THEN b.schema ELSE @,
              !.merged = IF IsSome(b.error) THEN @ ELSE handle_session(@, b.session)]

(***************************************************************************)
(* The HTTP driver.  One task; each action is the code from one await to   *)
(* the next, for one outcome of the awaited request.  Url::join, the       *)
(* parsing of a header value and the reading of an error body (resp.text)  *)
(* are taken to succeed.                                                   *)
(***************************************************************************)
SetStore(s) ==
    /\ database' = s.database
    /\ warehouse' = s.warehouse
    /\ session_settings' = s.settings

\* `return res` of the public operation.
Return(s, h, res) ==
    /\ SetStore(s)
    /\ pc' = "done"
    /\ result' = res
    /\ hist' = h
    /\ req' = NoReq
    /\ UNCHANGED << retries, delays, wfq, outsideHttp >>

\* query_page, client.rs 234: the delays of retry_strategy, `.take(3)`.
retry_strategy == 3

\* query_page, client.rs 232-243: build the headers and send the first GET.
query_page_call(s, h, w, uri) ==
    /\ SetStore(s)
    /\ pc' = "get"
    /\ req' = [method |-> "GET", uri |-> uri, sql |-> "",
               warehouse |-> make_headers(s), session |-> None]
    /\ delays' = retry_strategy
    /\ hist' = [h EXCEPT !.gets = 1, !.pages = @ + 1]
    /\ wfq' = w
    /\ UNCHANGED << retries, result, outsideHttp >>

\* serde_json::from_str::<BTreeMap<String, String>>, client.rs 433-434, on
\* the header texts of the model.
is_json_object(text) == text = "{}"

\* get_presigned_upload_url, client.rs 415-440: the checks made on what
\* query_wait returned, and the PresignedResponse (in resp of an Ok).
get_presigned_upload_url(resp) ==
    IF Len(resp.data) # 1
    THEN ErrText("Request", 0, "Empty response from server for presigned request")
    ELSE LET row == Columns(resp.data[1])
         IN IF Len(row) # 3
            THEN ErrText("Request", 0, "Invalid response from server for presigned request")
            ELSE IF row[1] # "PUT"
            THEN ErrText("Request", 0, "Invalid method for presigned upload request")
            ELSE IF ~is_json_object(row[2])
            THEN Err("Decode", 0)
            ELSE Ok(resp)

\* upload_to_stage, client.rs 447-448: get_presigned_upload_url returns by
\* `?` or presign_upload_to_stage sends its PUT to the presigned URL.
upload_presigned(s, h, resp) ==
    LET presigned_response == get_presigned_upload_url(resp)
    IN IF presigned_response.tag = "Err"
       THEN Return(s, h, presigned_response)
       ELSE /\ SetStore(s)
            /\ pc' = "presigned_put"
            /\ req' = [method |-> Columns(resp.data[1])[1], uri |-> Columns(resp.data[1])[3],
                       sql |-> "", warehouse |-> None, session |-> None]
            /\ hist' = [h EXCEPT !.presigned_puts = @ + 1]
            /\ UNCHANGED << retries, delays, wfq, result, outsideHttp >>

\* wait_for_query returns Ok(resp) to its caller: the public operation, or
\* get_presigned_upload_url through query_wait.
wait_for_query_return(s, h, resp) ==
    IF op = "upload_to_stage"
    THEN upload_presigned(s, h, resp)
    ELSE Return(s, h, Ok(resp))

\* wait_for_query, client.rs 280-283 and 291-293: the entry.
wait_for_query_enter(s, h, resp) ==
    LET h1 == [h EXCEPT !.schema0 = resp.schema]
    IN IF IsSome(resp.next_uri)
       THEN query_page_call(s, h1,
                [schema |-> resp.schema, data |-> resp.data, first |-> TRUE],
                Unwrap(resp.next_uri))
       ELSE wait_for_query_return(s, h1, resp)

\* wait_for_query, client.rs 283-290: a page has arrived.
wait_for_query_page(w, page) ==
    IF w.first
    THEN [w EXCEPT !.first = FALSE]
    ELSE [w EXCEPT !.data = @ \o page.data]

\* wait_for_query, client.rs 284: `while let Some(next_uri) = &resp.next_uri`.
wait_for_query_more_rows(page) == IsSome(page.next_uri) /\ page.data # << >>

wait_for_query_more(page) == IsSome(page.next_uri)

\* wait_for_query, client.rs 289-291: `resp.schema = schema; resp.data = data`.
wait_for_query_last_schema(w, page) == [page EXCEPT !.data = w.data]

wait_for_query_result(w, page) == [page EXCEPT !.schema = w.schema, !.data = w.data]

wait_for_query_resume(s, h, page) ==
    LET w == wait_for_query_page(wfq, page)
    IN IF wait_for_query_more(page)
       THEN query_page_call(s, h, w, Unwrap(page.next_uri))
       ELSE wait_for_query_return(s, h, wait_for_query_result(w, page))

\* The statement an operation posts: get_presigned_upload_url, client.rs 413.
sql_of(o) == IF o = "upload_to_stage" THEN "PRESIGN UPLOAD @stage" ELSE "SELECT"

\* The public operations start (each from an idle task).
\* query / query_wait / insert_with_stage: client.rs 186-199, 363-383.
StartPost(o) ==
    /\ pc = "idle"
    /\ op' = o
    /\ pc' = "post"
    /\ req' = [method |-> "POST", uri |-> "v1/query", sql |-> sql_of(o),
               warehouse |-> make_headers(Store), session |-> make_session(Store)]
    /\ retries' = 3
    /\ hist' = [StartHist(Store) EXCEPT !.posts = 1]
    /\ UNCHANGED << database, warehouse, session_settings, delays, wfq, result,
                    outsideHttp >>

StartQuery == StartPost("query")

StartQueryWait == StartPost("query_wait")

StartInsertWithStage == StartPost("insert_with_stage")

StartQueryPage ==
    /\ pc = "idle"
    /\ op' = "query_page"
    /\ query_page_call(Store, StartHist(Store), NoWfq, NextUri)

StartWaitForQuery ==
    /\ pc = "idle"
    /\ op' = "wait_for_query"
    /\ \E resp \in Bodies :
         wait_for_query_enter(Store,
             [StartHist(Store) EXCEPT
                 !.cursors = IF IsSome(resp.next_uri) THEN 1 ELSE 0,
                 !.received = resp.data],
             resp)

\* query / insert_with_stage, client.rs 199, 213: send().await? fails.
PostTransportErrorRetried ==
    /\ pc = "post"
    /\ IF retries > 0
       THEN /\ retries' = retries - 1
            /\ hist' = [hist EXCEPT !.posts = @ + 1]
            /\ UNCHANGED << database, warehouse, session_settings, pc, req,
                            delays, wfq, result, outsideHttp >>
       ELSE Return(Store, hist, Err("Transport", 0))
    /\ UNCHANGED op

PostTransportError ==
    /\ pc = "post"
    /\ Return(Store, hist, Err("Transport", 0))
    /\ UNCHANGED op

\* query / insert_with_stage, client.rs 201-221: a status other than OK.
query_break_any(status, n) == n <= 0

query_break(status, n) == status # SERVICE_UNAVAILABLE \/ n <= 0

PostStatus ==
    /\ pc = "post"
    /\ \E status \in FailStatuses, text \in Texts :
         LET h == [hist EXCEPT !.statuses = Append(@, status)]
         IN IF query_break(status, retries)
            THEN Return(Store, [h EXCEPT !.text = text],
                        ErrText("InvalidResponse", status, text))
            ELSE /\ retries' = retries - 1
                 /\ hist' = [h EXCEPT !.posts = @ + 1]
                 /\ UNCHANGED << database, warehouse, session_settings, pc, req,
                                 delays, wfq, result, outsideHttp >>
    /\ UNCHANGED op

\* client.rs 223, 407: status OK, and resp.json().await? fails.
PostBadBody ==
    /\ pc = "post"
    /\ Return(Store, [hist EXCEPT !.statuses = Append(@, OK)], Err("Decode", 0))
    /\ UNCHANGED op

\* query, client.rs 223-228; insert_with_stage, client.rs 407-409.
PostOk ==
    /\ pc = "post"
    /\ \E b \in BodiesFor(op) :
         /\ MayCarry(b)
         /\ LET h == SawBody([hist EXCEPT !.statuses = Append(@, OK)], b)
            IN IF op = "insert_with_stage"
               THEN wait_for_query_enter(Store, h, b)
               ELSE IF IsSome(b.error)
               THEN Return(Store, h, embedded_error(req.method, Unwrap(b.error)))
               ELSE IF op = "query"
               THEN Return(handle_session(Store, b.session), h, Ok(b))
               ELSE wait_for_query_enter(handle_session(Store, b.session), h, b)
    /\ UNCHANGED op

\* query_page, client.rs 243: Retry::spawn runs the request and, each time it
\* fails in the transport, takes the next delay of retry_strategy and runs
\* it again; with no delay left it returns the error.
query_page_retry_always(n) == n >= 0

query_page_retry(n) == n > 0

GetTransportError ==
    /\ pc = "get"
    /\ IF query_page_retry(delays)
       THEN /\ delays' = delays - 1
            /\ hist' = [hist EXCEPT !.gets = @ + 1]
            /\ UNCHANGED << database, warehouse, session_settings, pc, req,
                            retries, wfq, result, outsideHttp >>
       ELSE Return(Store, hist, Err("Transport", 0))
    /\ UNCHANGED op

\* query_page, client.rs 244-250: a status other than OK is returned at once.
GetStatus ==
    /\ pc = "get"
    /\ \E status \in FailStatuses, text \in Texts :
         Return(Store, [hist EXCEPT !.text = text],
                ErrText("InvalidResponse", status, text))
    /\ UNCHANGED op

\* query_page, client.rs 251: resp.json().await? fails.
GetBadBody ==
    /\ pc = "get"
    /\ Return(Store, hist, Err("Decode", 0))
    /\ UNCHANGED op

\* query_page, client.rs 251-256, and its caller wait_for_query, 283-290.
GetOk ==
    /\ pc = "get"
    /\ \E b \in BodiesFor(op) :
         /\ MayCarry(b)
         /\ LET h == SawBody(hist, b)
                s == handle_session(Store, b.session)
            IN IF IsSome(b.error)
               THEN Return(s, h, embedded_error(req.method, Unwrap(b.error)))
               ELSE IF op = "query_page"
               THEN Return(s, h, Ok(b))
               ELSE wait_for_query_resume(s, h, b)
    /\ UNCHANGED op

\* upload_to_stage, client.rs 444: the path taken.
upload_direct_inverted(disabled) == ~disabled

upload_direct(disabled) == disabled

\* upload_to_stage, client.rs 443-449, with upload_to_stage_with_stream up
\* to its send (454-471) or get_presigned_upload_url up to the send of
\* query (413-414, 186-199).  The stage location is taken to parse.
StartUploadToStage ==
    /\ pc = "idle"
    /\ IF upload_direct(presigned_url_disabled)
       THEN /\ op' = "upload_to_stage"
            /\ pc' = "put"
            /\ req' = [method |-> "PUT", uri |-> "v1/upload_to_stage", sql |-> "",
                       warehouse |-> make_headers(Store), session |-> None]
            /\ hist' = [StartHist(Store) EXCEPT !.direct_puts = 1]
            /\ UNCHANGED << database, warehouse, session_settings, retries,
                            delays, wfq, result, outsideHttp >>
       ELSE StartPost("upload_to_stage")

\* upload_to_stage_with_stream, client.rs 471-475: send() or bytes() fails.
PutTransportError ==
    /\ pc = "put"
    /\ Return(Store, hist, Err("Transport", 0))
    /\ UNCHANGED op

\* upload_to_stage_with_stream, client.rs 474-483: a status other than OK.
PutStatus ==
    /\ pc = "put"
    /\ \E status \in FailStatuses, text \in Texts :
         Return(Store, [hist EXCEPT !.text = text], ErrText("Request", 0, text))
    /\ UNCHANGED op

\* upload_to_stage_with_stream, client.rs 474-478: status OK.
PutOk ==
    /\ pc = "put"
    /\ Return(Store, hist, Ok(NoResp))
    /\ UNCHANGED op

\* presign_upload_to_stage: the one PUT to the presigned URL has failed, or
\* succeeded.
PresignedPutFailed ==
    /\ pc = "presigned_put"
    /\ Return(Store, hist, Err("Upload", 0))
    /\ UNCHANGED op

PresignedPutOk ==
    /\ pc = "presigned_put"
    /\ Return(Store, hist, Ok(NoResp))
    /\ UNCHANGED op

\* The caller has its result; the task is free for the next operation.
Finish ==
    /\ pc = "done"
    /\ pc' = "idle"
    /\ op' = "none"
    /\ req' = NoReq
    /\ retries' = 0
    /\ delays' = 0
    /\ wfq' = NoWfq
    /\ result' = NoResult
    /\ hist' = NoHist
    /\ UNCHANGED << database, warehouse, session_settings, outsideHttp >>

InitHttpIdle ==
    /\ op = "none"
    /\ pc = "idle"
    /\ req = NoReq
    /\ retries = 0
    /\ delays = 0
    /\ wfq = NoWfq
    /\ result = NoResult
    /\ hist = NoHist

InitFlightOff ==
    /\ handshaked = FALSE
    /\ hs_lock = None
    /\ cl_lock = None
    /\ tpc = << >>
    /\ top = << >>
    /\ tops = << >>
    /\ net = << >>

InitRowsOff ==
    /\ rows = << >>
    /\ data = [frames |-> << >>, term |-> "off"]
    /\ frames = << >>
    /\ out = << >>
    /\ presigned = None

\* No connection string is being parsed, no tasks share the client.
InitDsnOff ==
    /\ dsn_given = None
    /\ parsed = None

InitLocksOff ==
    /\ locks = << >>
    /\ qt = << >>

\* The APIClient from_dsn returns, with its task idle.
InitHttpFrom(dsns) ==
    /\ \E dsn \in dsns :
         LET client == from_dsn(dsn)
         IN /\ database = client.database
            /\ warehouse = client.warehouse
            /\ session_settings = client.settings
            /\ presigned_url_disabled = client.presigned_url_disabled
    /\ InitHttpIdle
    /\ InitFlightOff
    /\ InitRowsOff
    /\ InitDsnOff
    /\ InitLocksOff

InitHttp == InitHttpFrom(Dsns)

NextHttp ==
    \/ StartQuery
    \/ StartQueryWait
    \/ StartInsertWithStage
    \/ StartQueryPage
    \/ StartWaitForQuery
    \/ PostTransportError
    \/ PostStatus
    \/ PostBadBody
    \/ PostOk
    \/ GetTransportError
    \/ GetStatus
    \/ GetBadBody
    \/ GetOk
    \/ Finish

SpecHttp == InitHttp /\ [][NextHttp]_vars

\* The client used for query and query_page only, made from a connection
\* string that gives settings.
InitMerge == InitHttpFrom(SettingDsns)

NextMerge ==
    \/ StartQuery
    \/ StartQueryPage
    \/ PostTransportError
    \/ PostStatus
    \/ PostBadBody
    \/ PostOk
    \/ GetTransportError
    \/ GetStatus
    \/ GetBadBody
    \/ GetOk
    \/ Finish

SpecMerge == InitMerge /\ [][NextMerge]_vars

\* The client used for upload_to_stage, made from a connection string that
\* may disable presigned uploads.
StageDsns == [host : {Host}, port : {None}, path : {"", "test"},
              pairs : UNION {[1..n -> { << "warehouse", "wh" >>,
                                        << "presigned_url_disabled", "true" >>,
                                        << "presigned_url_disabled", "0" >> }] :
                                n \in 0..MaxDsnPairs}]

InitStage == InitHttpFrom(StageDsns)

NextStage ==
    \/ StartUploadToStage
    \/ PostTransportError
    \/ PostStatus
    \/ PostBadBody
    \/ PostOk
    \/ GetTransportError
    \/ GetStatus
    \/ GetBadBody
    \/ GetOk
    \/ PutTransportError
    \/ PutStatus
    \/ PutOk
    \/ PresignedPutFailed
    \/ PresignedPutOk
    \/ Finish

SpecStage == InitStage /\ [][NextStage]_vars

(***************************************************************************)
(* FlightSQLConnection: tasks sharing one connection, each running exec or *)
(* query_iter_ext.  Two tokio mutexes: handshaked and client.  Each action *)
(* is the code of one task from one await to the next.                     *)
(***************************************************************************)
\* Tasks sharing the connection, and operations each may start.
NumTasks == 2
MaxOps == 2

Tasks == 1..NumTasks
NoNet == [hs_calls |-> 0, hs_ok |-> 0, hs_err |-> 0, stmts |-> 0, unshaken |-> 0]

\* exec / query_iter_ext are called: `self.handshake().await` begins.
FlightStart(t) ==
    /\ tpc[t] = "idle"
    /\ tops[t] < MaxOps
    /\ \E o \in {"exec", "query_iter_ext"} : top' = [top EXCEPT ![t] = o]
    /\ tops' = [tops EXCEPT ![t] = @ + 1]
    /\ tpc' = [tpc EXCEPT ![t] = "hs_lock"]
    /\ UNCHANGED << handshaked, hs_lock, cl_lock, net, outsideFlight >>

\* handshake, flight_sql.rs 143-146: the handshaked lock is acquired; if the
\* flag is set the guard is dropped and handshake returns Ok.
handshake_lock_dropped(t) ==
    /\ tpc[t] = "hs_lock"
    /\ hs_lock = None
    /\ tpc' = [tpc EXCEPT ![t] = IF handshaked THEN "cl_lock" ELSE "hs_cl_lock"]
    /\ UNCHANGED << handshaked, hs_lock, cl_lock, top, tops, net, outsideFlight >>

handshake_lock(t) ==
    /\ tpc[t] = "hs_lock"
    /\ hs_lock = None
    /\ IF handshaked
       THEN /\ tpc' = [tpc EXCEPT ![t] = "cl_lock"]
            /\ UNCHANGED hs_lock
       ELSE /\ tpc' = [tpc EXCEPT ![t] = "hs_cl_lock"]
            /\ hs_lock' = Some(t)
    /\ UNCHANGED << handshaked, cl_lock, top, tops, net, outsideFlight >>

\* handshake, flight_sql.rs 147-150: the client lock is acquired and the
\* handshake call is sent.
handshake_call(t) ==
    /\ tpc[t] = "hs_cl_lock"
    /\ cl_lock = None
    /\ cl_lock' = Some(t)
    /\ net' = [net EXCEPT !.hs_calls = @ + 1]
    /\ tpc' = [tpc EXCEPT ![t] = "hs_call"]
    /\ UNCHANGED << handshaked, hs_lock, top, tops, outsideFlight >>

Unlock_kept(l, t) == l

\* The guards a task holds are dropped when handshake returns.
Unlock(l, t) == IF l = Some(t) THEN None ELSE l

\* handshake, flight_sql.rs 150-152: the call succeeded.
handshake_ok(t) ==
    /\ tpc[t] = "hs_call"
    /\ handshaked' = TRUE
    /\ hs_lock' = Unlock(hs_lock, t)
    /\ cl_lock' = Unlock(cl_lock, t)
    /\ net' = [net EXCEPT !.hs_ok = @ + 1]
    /\ tpc' = [tpc EXCEPT ![t] = "cl_lock"]
    /\ UNCHANGED << top, tops, outsideFlight >>

\* handshake, flight_sql.rs 150: the call failed; `?` returns the error from
\* handshake and from exec / query_iter_ext (flight_sql.rs 63, 86).
handshake_err_ignored(t) ==
    /\ tpc[t] = "hs_call"
    /\ hs_lock' = Unlock(hs_lock, t)
    /\ cl_lock' = Unlock(cl_lock, t)
    /\ net' = [net EXCEPT !.hs_err = @ + 1]
    /\ tpc' = [tpc EXCEPT ![t] = "cl_lock"]
    /\ UNCHANGED << handshaked, top, tops, outsideFlight >>

handshake_err(t) ==
    /\ tpc[t] = "hs_call"
    /\ hs_lock' = Unlock(hs_lock, t)
    /\ cl_lock' = Unlock(cl_lock, t)
    /\ net' = [net EXCEPT !.hs_err = @ + 1]
    /\ tpc' = [tpc EXCEPT ![t] = "idle"]
    /\ UNCHANGED << handshaked, top, tops, outsideFlight >>

\* exec, flight_sql.rs 64-65; query_iter_ext, flight_sql.rs 87-88: the client
\* lock is acquired and the statement is sent (execute_update or prepare).
statement_call(t) ==
    /\ tpc[t] = "cl_lock"
    /\ cl_lock = None
    /\ cl_lock' = Some(t)
    /\ net' = [net EXCEPT !.stmts = @ + 1,
                          !.unshaken = IF handshaked THEN @ ELSE @ + 1]
    /\ tpc' = [tpc EXCEPT ![t] = IF top[t] = "exec" THEN "update" ELSE "prepare"]
    /\ UNCHANGED << handshaked, hs_lock, top, tops, outsideFlight >>

FlightReturn_held(t) ==
    /\ tpc' = [tpc EXCEPT ![t] = "idle"]
    /\ UNCHANGED << handshaked, hs_lock, cl_lock, top, tops, net, outsideFlight >>

\* The operation returns, Ok or by `?`: the client guard is dropped.
FlightReturn(t) ==
    /\ cl_lock' = Unlock(cl_lock, t)
    /\ tpc' = [tpc EXCEPT ![t] = "idle"]
    /\ UNCHANGED << handshaked, hs_lock, top, tops, net, outsideFlight >>

\* exec, flight_sql.rs 65-66: execute_update returned, Ok or Err.
exec_done(t) ==
    /\ tpc[t] = "update"
    /\ FlightReturn(t)

\* query_iter_ext, flight_sql.rs 88-95: prepare, execute, do_get and the
\* first frame (try_from_flight_data) are awaited in turn; each succeeds, and
\* the next is sent, or fails, and `?` returns (so does an empty ticket).
NextAwait(p) ==
    CASE p = "prepare" -> "execute"
      [] p = "execute" -> "do_get"
      [] p = "do_get" -> "schema"
      [] p = "schema" -> "idle"

query_iter_ext_step(t) ==
    /\ tpc[t] \in {"prepare", "execute", "do_get"}
    /\ tpc' = [tpc EXCEPT ![t] = NextAwait(@)]
    /\ UNCHANGED << handshaked, hs_lock, cl_lock, top, tops, net, outsideFlight >>

query_iter_ext_done(t) ==
    /\ tpc[t] \in {"prepare", "execute", "do_get", "schema"}
    /\ FlightReturn(t)

InitHttpOff ==
    /\ database = None
    /\ warehouse = None
    /\ session_settings = EmptyMap
    /\ presigned_url_disabled = FALSE
    /\ InitHttpIdle

\* The connection try_create returns, no task running.
InitFlight ==
    /\ handshaked = FALSE
    /\ hs_lock = None
    /\ cl_lock = None
    /\ tpc = [t \in Tasks |-> "idle"]
    /\ top = [t \in Tasks |-> "none"]
    /\ tops = [t \in Tasks |-> 0]
    /\ net = NoNet
    /\ InitHttpOff
    /\ InitRowsOff
    /\ InitDsnOff
    /\ InitLocksOff

NextFlight ==
    \E t \in Tasks :
        \/ FlightStart(t)
        \/ handshake_lock(t)
        \/ handshake_call(t)
        \/ handshake_ok(t)
        \/ handshake_err(t)
        \/ statement_call(t)
        \/ exec_done(t)
        \/ query_iter_ext_step(t)
        \/ query_iter_ext_done(t)

SpecFlight == InitFlight /\ [][NextFlight]_vars

(***************************************************************************)
(* FlightSQLRows: the row decoder over a Streaming<FlightData>.  The frame *)
(* stream is what the server will send after the schema frame: frames,     *)
(* then its end or a transport error.  A data frame carries a batch of     *)
(* rows, a progress frame (app_metadata = [0x01]) a progress record; `ok`  *)
(* tells whether the frame decodes.  Decoding itself is outside the model. *)
(***************************************************************************)
\* Most frames of a stream, and most results of poll_next looked at.
MaxFrames == 3
MaxPolls == 8

Batches == { << >>, << "a" >>, << "b" >>, << "a", "b" >> }
Frames == [kind : {"data"}, rows : Batches, ok : {TRUE}]
          \cup [kind : {"data", "progress"}, rows : {<< >>}, ok : {FALSE}]
          \cup [kind : {"progress"}, rows : {<< >>}, ok : {TRUE}]
Streams == [frames : UNION {[1..n -> Frames] : n \in 0..MaxFrames},
            term : {"end", "error"}]
TransportError == [kind |-> "transport_error", rows |-> << >>, ok |-> FALSE]

\* Poll<Option<Result<RowWithProgress>>>
Pending == [kind |-> "Pending", v |-> ""]
End == [kind |-> "End", v |-> ""]
ItemRow(r) == [kind |-> "Row", v |-> r]
ItemProgress == [kind |-> "Progress", v |-> ""]
ItemErr(e) == [kind |-> "Err", v |-> e]

Polled(ret, rs, d, taken) == [ret |-> ret, rows |-> rs, data |-> d, taken |-> taken]

\* VecDeque::pop_front, flight_sql.rs 320.
pop_back(rs) == [item |-> rs[Len(rs)], rest |-> SubSeq(rs, 1, Len(rs) - 1)]

pop_front(rs) == [item |-> Head(rs), rest |-> Tail(rs)]

\* poll_next(rs, d, avail, taken): rs is self.rows, d what is left of
\* self.data, avail how many of its events (frames, then its end or error)
\* have arrived, taken the frames this call has pulled so far.
RECURSIVE poll_next(_, _, _, _)

\* flight_sql.rs 336-338: the batch is decoded, its rows are pushed to the
\* buffer and poll_next is entered again.
batch_or_end(rs, d, avail, taken) ==
    IF rs = << >> THEN Polled(End, rs, d, taken) ELSE poll_next(rs, d, avail, taken)

batch_decoded(rs, d, avail, taken) == poll_next(rs, d, avail, taken)

\* flight_sql.rs 319-348.  A Streaming that has ended or failed yields None
\* from then on.
poll_next(rs, d, avail, taken) ==
    IF rs # << >>
    THEN Polled(ItemRow(pop_front(rs).item), pop_front(rs).rest, d, taken)
    ELSE IF avail = 0
    THEN Polled(Pending, rs, d, taken)
    ELSE IF d.frames = << >>
    THEN IF d.term = "end"
         THEN Polled(End, rs, d, taken)
         ELSE Polled(ItemErr("transport"), rs, [d EXCEPT !.term = "end"],
                     Append(taken, TransportError))
    ELSE LET datum == Head(d.frames)
             rest  == [d EXCEPT !.frames = Tail(@)]
             took  == Append(taken, datum)
         IN IF datum.kind = "progress"
            THEN IF datum.ok
                 THEN Polled(ItemProgress, rs, rest, took)
                 ELSE Polled(ItemErr("decode"), rs, rest, took)
            ELSE IF datum.ok
                 THEN batch_decoded(rs \o datum.rows, rest, avail - 1, took)
                 ELSE Polled(ItemErr("decode"), rs, rest, took)

\* The consumer pulls: one call of poll_next, with `avail` events of the
\* stream arrived.  Pending is no item: the task is woken and polls again.
PollNext ==
    /\ data.term # "off"
    /\ Len(out) < MaxPolls
    /\ \E avail \in 0..(Len(data.frames) + 1) :
         LET r == poll_next(rows, data, avail, << >>)
         IN /\ rows' = r.rows
            /\ data' = r.data
            /\ frames' = frames \o r.taken
            /\ out' = IF r.ret = Pending THEN out ELSE Append(out, r.ret)
    /\ UNCHANGED << presigned, outsideRows >>

\* The decoder try_from_flight_data returns: the schema frame consumed, the
\* buffer empty.
InitRows ==
    /\ rows = << >>
    /\ data \in Streams
    /\ frames = << >>
    /\ out = << >>
    /\ presigned = None
    /\ InitHttpOff
    /\ InitFlightOff
    /\ InitDsnOff
    /\ InitLocksOff

NextRows == PollNext

SpecRows == InitRows /\ [][NextRows]_vars

(***************************************************************************)
(* FlightSQLConnection::get_presigned_url over the rows of its PRESIGN     *)
(* statement.  Row a has three string columns (method, headers, URL), row  *)
(* b has two.                                                              *)
(***************************************************************************)
RowColumns(r) ==
    IF r = "a" THEN << "PUT", "{}", "https://s3/stage" >> ELSE << "PUT", "{}" >>

\* Result<PresignedResponse>
PresignedOk(method, headers, url) ==
    [tag |-> "Ok", kind |-> "", method |-> method, headers |-> headers, url |-> url]
PresignedErr(kind) ==
    [tag |-> "Err", kind |-> kind, method |-> "", headers |-> EmptyMap, url |-> ""]

\* TryFrom<Row> for (String, String, String): a row of three string columns
\* converts, any other row is a conversion error.
row_try_into(r) == Len(RowColumns(r)) = 3

\* get_presigned_url, flight_sql.rs 101-111, given what query_row returned:
\* a poll result that is a row, an error or the end of the rows.
get_presigned_url(item) ==
    IF item.kind = "Err" THEN PresignedErr(item.v)
    ELSE IF item.kind = "End" THEN PresignedErr("InvalidResponse")
    ELSE IF ~row_try_into(item.v) THEN PresignedErr("Parsing")
    ELSE PresignedOk(RowColumns(item.v)[1], EmptyMap, RowColumns(item.v)[3])

\* query_row, flight_sql.rs 70: query_iter fails (the handshake, the
\* statement or the schema frame), and `?` returns the error.
query_iter_failed ==
    /\ data.term # "off"
    /\ presigned = None
    /\ frames = << >>
    /\ out = << >>
    /\ presigned' = Some(PresignedErr("Flight"))
    /\ UNCHANGED << rowsVars, outsideRows >>

\* query_row, flight_sql.rs 71: rows.try_next() polls the decoder through
\* the filter of query_iter (flight_sql.rs 77-81), which passes rows and
\* errors and drops progress; the first item that passes, or the end, is
\* what query_row returns, and get_presigned_url returns on it.
query_row_poll ==
    /\ data.term # "off"
    /\ presigned = None
    /\ \E avail \in 0..(Len(data.frames) + 1) :
         LET r == poll_next(rows, data, avail, << >>)
         IN /\ rows' = r.rows
            /\ data' = r.data
            /\ frames' = frames \o r.taken
            /\ out' = IF r.ret = Pending THEN out ELSE Append(out, r.ret)
            /\ presigned' = IF r.ret \in {Pending, ItemProgress}
                            THEN None
                            ELSE Some(get_presigned_url(r.ret))
    /\ UNCHANGED << outsideRows >>

InitUrl == InitRows

NextUrl ==
    \/ query_iter_failed
    \/ query_row_poll

SpecUrl == InitUrl /\ [][NextUrl]_vars

(***************************************************************************)
(* APIClient::from_dsn as a function of the connection string.             *)
(***************************************************************************)
FromDsn ==
    /\ IsSome(dsn_given)
    /\ parsed = None
    /\ parsed' = Some(from_dsn(Unwrap(dsn_given)))
    /\ UNCHANGED << dsn_given, httpVars, flightVars, rowsVars, presigned,
                    presigned_url_disabled, lockVars >>

InitDsn ==
    /\ dsn_given \in {Some(d) : d \in AllDsns}
    /\ parsed = None
    /\ InitHttpOff
    /\ InitFlightOff
    /\ InitRowsOff
    /\ InitLocksOff

NextDsn == FromDsn

SpecDsn == InitDsn /\ [][NextDsn]_vars

(***************************************************************************)
(* Tasks sharing one APIClient, each running query.  The three fields of   *)
(* the session store are tokio mutexes; `locks` names the owner of each.   *)
(* Each action is the code of one task from one await to the next: a       *)
(* lock().await that has to wait, or the send of the request.  A guard is  *)
(* dropped at the end of its block, with no await in between.              *)
(***************************************************************************)
\* Tasks sharing the client; each runs query again and again.
NumQueryTasks == 2

QueryTasks == 1..NumQueryTasks
NoLocks == [settings |-> None, database |-> None, warehouse |-> None]

\* The locals of a task that matter past an await: `retries`, the delta of
\* the response being merged, and the place in its settings.  `pre` is not
\* in the code: the store as it was when the merge in progress began.
IdleTask == [pc |-> "idle", retries |-> 0, delta |-> None, at |-> 0, pre |-> None]

lock_free_ignored(l, name) == TRUE

\* Mutex::lock().await returns once no guard of the lock is alive.
lock_free(l, name) == l[name] = None

\* The deltas a response to a concurrent query may carry: those of
\* SessionDeltas, and one that sets the database, the warehouse and a setting.
MergeDeltas ==
    SessionDeltas \cup
    { Some([database |-> Some("db2"),
            settings |-> Some([k \in {"warehouse", "x"} |->
                                  IF k = "warehouse" THEN "wh2" ELSE "1"])]) }

SessionFrame == << httpTask, flightVars, rowsVars, presigned, presigned_url_disabled,
                   dsnVars >>

\* query is called: make_session begins with session_settings.lock().await.
SessionStart(t) ==
    /\ qt[t].pc = "idle"
    /\ qt' = [qt EXCEPT ![t].pc = "ms_settings"]
    /\ UNCHANGED << database, warehouse, session_settings, locks, SessionFrame >>

\* make_session, client.rs 302: the settings lock is acquired; next is
\* database.lock().await.
make_session_lock(t) ==
    /\ qt[t].pc = "ms_settings"
    /\ lock_free(locks, "settings")
    /\ locks' = [locks EXCEPT !.settings = Some(t)]
    /\ qt' = [qt EXCEPT ![t].pc = "ms_database"]
    /\ UNCHANGED << database, warehouse, session_settings, SessionFrame >>

\* make_session returns: both guards are dropped.
make_session_keep(l) == l

make_session_drop(l) == [l EXCEPT !.settings = None]

\* make_session, client.rs 303-317: the database lock is acquired, the
\* snapshot is taken, both guards are dropped; query goes on to
\* make_headers, client.rs 349: warehouse.lock().await.
make_session_read(t) ==
    /\ qt[t].pc = "ms_database"
    /\ lock_free(locks, "database")
    /\ locks' = make_session_drop(locks)
    /\ qt' = [qt EXCEPT ![t].pc = "mh_warehouse"]
    /\ UNCHANGED << database, warehouse, session_settings, SessionFrame >>

\* make_headers, client.rs 349-353, and query, client.rs 192-200: the
\* warehouse lock is acquired, the header built, the guard dropped and the
\* POST sent.
make_headers_send(t) ==
    /\ qt[t].pc = "mh_warehouse"
    /\ lock_free(locks, "warehouse")
    /\ qt' = [qt EXCEPT ![t] = [@ EXCEPT !.pc = "inflight", !.retries = 3]]
    /\ UNCHANGED << database, warehouse, session_settings, locks, SessionFrame >>

\* query, client.rs 201-214: a 503 with retries left, the POST is sent again.
query_resend(t) ==
    /\ qt[t].pc = "inflight"
    /\ ~query_break(SERVICE_UNAVAILABLE, qt[t].retries)
    /\ qt' = [qt EXCEPT ![t].retries = @ - 1]
    /\ UNCHANGED << database, warehouse, session_settings, locks, SessionFrame >>

\* query, client.rs 199-226: the send fails, the status is not OK, the body
\* does not decode or carries an error: query returns Err.
query_failed(t) ==
    /\ qt[t].pc = "inflight"
    /\ qt' = [qt EXCEPT ![t] = IdleTask]
    /\ UNCHANGED << database, warehouse, session_settings, locks, SessionFrame >>

\* query, client.rs 223-227: an error-free body; handle_session begins with
\* session_settings.lock().await.
query_ok(t) ==
    /\ qt[t].pc = "inflight"
    /\ \E d \in MergeDeltas :
         qt' = [qt EXCEPT ![t] = [@ EXCEPT !.pc = "hs_settings", !.delta = d]]
    /\ UNCHANGED << database, warehouse, session_settings, locks, SessionFrame >>

\* handle_session, client.rs 169-180: the loop over the delta's settings
\* from key `at` on, up to the next warehouse.lock().await or its end.
RECURSIVE settings_run(_, _, _)
settings_run(m, settings, at) ==
    IF at > Len(SortedKeys) THEN [settings |-> m, at |-> at]
    ELSE LET k == SortedKeys[at]
         IN IF k \notin DOMAIN settings THEN settings_run(m, settings, at + 1)
            ELSE IF k = "warehouse" THEN [settings |-> m, at |-> at]
            ELSE settings_run(insert(m, k, settings[k]), settings, at + 1)

\* A guard taken inside a block of handle_session, client.rs 167 and 173.
guard_take(l, name, t) == [l EXCEPT ![name] = Some(t)]

guard_kept(l, name) == l

\* The block ends, client.rs 169 and 176: the guard is dropped.
guard_drop(l, name) == [l EXCEPT ![name] = None]

handle_session_return_held(l) == l

\* handle_session returns, client.rs 183: the guard of the settings lock is
\* dropped.
handle_session_return(l) == [l EXCEPT !.settings = None]

\* handle_session goes on from key `at`, holding the settings lock, the
\* other locks as in l; at the end the guard is dropped and query returns Ok.
handle_session_continue(t, at, l) ==
    LET d == Unwrap(qt[t].delta)
        r == settings_run(session_settings,
                          IF IsSome(d.settings) THEN Unwrap(d.settings) ELSE EmptyMap,
                          at)
    IN /\ session_settings' = r.settings
       /\ IF r.at > Len(SortedKeys)
          THEN /\ locks' = handle_session_return(l)
               /\ qt' = [qt EXCEPT ![t] = IdleTask]
          ELSE /\ locks' = [l EXCEPT !.settings = Some(t)]
               /\ qt' = [qt EXCEPT ![t] =
                            [@ EXCEPT !.pc = "hs_warehouse", !.at = r.at,
                                      !.pre = IF IsSome(@) THEN @ ELSE Some(Store)]]

\* handle_session, client.rs 163-168: the settings lock is acquired.
handle_session_lock(t) ==
    /\ qt[t].pc = "hs_settings"
    /\ lock_free(locks, "settings")
    /\ IF ~IsSome(qt[t].delta)
       THEN /\ qt' = [qt EXCEPT ![t] = IdleTask]
            /\ UNCHANGED << session_settings, locks >>
       ELSE IF IsSome(Unwrap(qt[t].delta).database)
       THEN /\ locks' = [locks EXCEPT !.settings = Some(t)]
            /\ qt' = [qt EXCEPT ![t] = [@ EXCEPT !.pc = "hs_database",
                                                 !.pre = Some(Store)]]
            /\ UNCHANGED session_settings
       ELSE handle_session_continue(t, 1, locks)
    /\ UNCHANGED << database, warehouse, SessionFrame >>

\* handle_session, client.rs 166-168: the database lock is acquired, the
\* database replaced, the guard dropped.
handle_session_database(t) ==
    /\ qt[t].pc = "hs_database"
    /\ lock_free(locks, "database")
    /\ database' = Unwrap(qt[t].delta).database
    /\ handle_session_continue(t, 1, guard_drop(guard_take(locks, "database", t), "database"))
    /\ UNCHANGED << warehouse, SessionFrame >>

\* handle_session, client.rs 172-175: the warehouse lock is acquired, the
\* warehouse replaced, the guard dropped.
handle_session_warehouse(t) ==
    /\ qt[t].pc = "hs_warehouse"
    /\ lock_free(locks, "warehouse")
    /\ warehouse' = Some(Unwrap(Unwrap(qt[t].delta).settings)[SortedKeys[qt[t].at]])
    /\ handle_session_continue(t, qt[t].at + 1,
                               guard_drop(guard_take(locks, "warehouse", t), "warehouse"))
    /\ UNCHANGED << database, SessionFrame >>

\* current_database is called, client.rs 157-158: database.lock().await.
CurrentDatabaseStart(t) ==
    /\ qt[t].pc = "idle"
    /\ qt' = [qt EXCEPT ![t].pc = "cd_database"]
    /\ UNCHANGED << database, warehouse, session_settings, locks, SessionFrame >>

\* current_database, client.rs 158-160: the database lock is acquired, the
\* value cloned, the guard dropped.
current_database(t) ==
    /\ qt[t].pc = "cd_database"
    /\ lock_free(locks, "database")
    /\ qt' = [qt EXCEPT ![t] = IdleTask]
    /\ UNCHANGED << database, warehouse, session_settings, locks, SessionFrame >>

\* current_warehouse is called, client.rs 152-153: warehouse.lock().await.
CurrentWarehouseStart(t) ==
    /\ qt[t].pc = "idle"
    /\ qt' = [qt EXCEPT ![t].pc = "cw_warehouse"]
    /\ UNCHANGED << database, warehouse, session_settings, locks, SessionFrame >>

\* current_warehouse, client.rs 153-155: the warehouse lock is acquired,
\* the value cloned, the guard dropped.
current_warehouse(t) ==
    /\ qt[t].pc = "cw_warehouse"
    /\ lock_free(locks, "warehouse")
    /\ qt' = [qt EXCEPT ![t] = IdleTask]
    /\ UNCHANGED << database, warehouse, session_settings, locks, SessionFrame >>

\* The client from_dsn returns, shared by tasks that have not started.
InitSessionFrom(dsns) ==
    /\ \E dsn \in dsns :
         LET client == from_dsn(dsn)
         IN /\ database = client.database
            /\ warehouse = client.warehouse
            /\ session_settings = client.settings
            /\ presigned_url_disabled = client.presigned_url_disabled
    /\ locks = NoLocks
    /\ qt = [t \in QueryTasks |-> IdleTask]
    /\ InitHttpIdle
    /\ InitFlightOff
    /\ InitRowsOff
    /\ InitDsnOff

InitSession == InitSessionFrom(Dsns)

NextSession ==
    \E t \in QueryTasks :
        \/ SessionStart(t)
        \/ make_session_lock(t)
        \/ make_session_read(t)
        \/ make_headers_send(t)
        \/ query_resend(t)
        \/ query_failed(t)
        \/ query_ok(t)
        \/ handle_session_lock(t)
        \/ handle_session_database(t)
        \/ handle_session_warehouse(t)
        \/ CurrentDatabaseStart(t)
        \/ current_database(t)
        \/ CurrentWarehouseStart(t)
        \/ current_warehouse(t)

SpecSession == InitSession /\ [][NextSession]_vars

(***************************************************************************)
(* Claims about the HTTP driver, checked under SpecHttp.                   *)
(***************************************************************************)
Returned(o) == op = o /\ pc = "done"

\* C1 (as claimed): wait_for_query, given an initial response with a cursor,
\* returns as data the initial response's rows followed by the rows of every
\* page fetched, in fetch order.
C1_AllFetchedRowsReturned ==
    (Returned("wait_for_query") /\ result.tag = "Ok" /\ hist.pages >= 1)
        => result.resp.data = hist.received

\* C2: wait_for_query fetches a page exactly as long as the response received
\* last carries a cursor: while a page is awaited, and when the operation
\* returns Ok, it has issued one GET per cursor received (hist.pages: the
\* GET each query_page call starts with; the re-sends of an attempt that
\* failed in the transport are not counted here), so a page with a cursor
\* and no rows is followed; the response returned carries no cursor; an
\* initial response without a cursor is returned as it is, no page fetched.
C2_FetchWhileCursor ==
    /\ (op = "wait_for_query" /\ pc = "get") => hist.pages = hist.cursors
    /\ (Returned("wait_for_query") /\ result.tag = "Ok") =>
          /\ hist.pages = hist.cursors
          /\ ~IsSome(result.resp.next_uri)
          /\ hist.cursors = 0 =>
                /\ hist.pages = 0
                /\ result.resp.schema = hist.schema0
                /\ result.resp.data = hist.received

C2_Witness ==
    /\ Returned("wait_for_query")
    /\ result.tag = "Ok"
    /\ hist.cursors = 2
    /\ hist.received = << >>

\* C3: query sends the POST again only after a 503 and at most 3 times: every
\* status before the last one received is 503, at most 4 POSTs are sent; with
\* 503, 503, 200 it has sent 3 and returns what the body decides; with four
\* 503 it has sent 4 and returns InvalidResponse with that status.
C3_RetryOnlyOn503 ==
    op = "query" =>
        /\ hist.posts <= 4
        /\ \A i \in 1..(hist.posts - 1) : hist.statuses[i] = SERVICE_UNAVAILABLE
        /\ pc = "post" => Len(hist.statuses) = hist.posts - 1
        /\ pc = "done" =>
              /\ result.kind # "Transport" => Len(hist.statuses) = hist.posts
              /\ result.kind = "Transport" => Len(hist.statuses) = hist.posts - 1
              /\ hist.statuses = << SERVICE_UNAVAILABLE, SERVICE_UNAVAILABLE, OK >>
                    => /\ hist.posts = 3
                       /\ result.kind \in {"", "Decode", "InvalidResponse"}
                       /\ result.tag = "Err" => result.code # SERVICE_UNAVAILABLE
              /\ hist.statuses = [i \in 1..4 |-> SERVICE_UNAVAILABLE]
                    => /\ hist.posts = 4
                       /\ result = ErrText("InvalidResponse", SERVICE_UNAVAILABLE,
                                           hist.text)

C3_Witness ==
    /\ Returned("query")
    /\ hist.statuses = [i \in 1..4 |-> SERVICE_UNAVAILABLE]
    /\ hist.posts = 4

C3_WitnessThird ==
    /\ Returned("query")
    /\ hist.statuses = << SERVICE_UNAVAILABLE, SERVICE_UNAVAILABLE, OK >>
    /\ result.tag = "Ok"

\* C4 (as claimed): query_page sends at most 3 GETs for one continuation URI.
C4_AtMostThreeGets == hist.gets <= 3

\* C4 (amended): query_page sends at most 4 GETs for one continuation URI,
\* the first attempt and one per delay of retry_strategy; when every attempt
\* fails in the transport, the transport error is returned after the fourth
\* and no fifth is sent.
C4_AtMostFourGets ==
    /\ hist.gets <= 4
    /\ pc = "get" => hist.gets = 4 - delays
    /\ (Returned("query_page") /\ result.kind = "Transport") => hist.gets = 4

C4_Witness ==
    /\ Returned("query_page")
    /\ result = Err("Transport", 0)
    /\ hist.gets = 4

\* C9: the settings map never holds the key "warehouse": from_dsn and
\* handle_session write a "warehouse" entry to the warehouse slot only, and
\* every other key of a delta to the settings map (merging
\* {"warehouse": "wh2", "x": "1"} into any store the client reaches leaves
\* warehouse = wh2, settings[x] = 1, and the rest as it was).
WarehouseDelta ==
    Some([database |-> None,
          settings |-> Some([k \in {"warehouse", "x"} |->
                                IF k = "warehouse" THEN "wh2" ELSE "1"])])

C9_WarehouseNotInSettings ==
    /\ "warehouse" \notin DOMAIN session_settings
    /\ LET s == handle_session(Store, WarehouseDelta)
       IN /\ s.warehouse = Some("wh2")
          /\ s.settings = insert(session_settings, "x", "1")
          /\ s.database = database

C9_Witness ==
    /\ warehouse = Some("wh2")
    /\ DOMAIN session_settings = {"x"}
    /\ session_settings["x"] = "1"
    /\ pc = "done"

\* C10 (as claimed): when query, query_page, wait_for_query or
\* insert_with_stage returns Ok, the session delta of every response that was
\* decoded without an embedded error has been merged into the store, in the
\* order received.
C10_DeltasMerged ==
    (pc = "done" /\ result.tag = "Ok") => Store = hist.merged

\* The same for the operations other than insert_with_stage.
C10_DeltasMergedButInsert ==
    (pc = "done" /\ result.tag = "Ok" /\ op # "insert_with_stage")
        => Store = hist.merged

(***************************************************************************)
(* Claims about FlightSQLConnection, checked under SpecFlight.             *)
(***************************************************************************)
\* C5 (as claimed): at most one handshake network call is attempted over the
\* lifetime of the connection, whatever its outcome.
C5_OneHandshakeCall == net.hs_calls <= 1

\* C5 (amended): at most one handshake call is in flight at any time, at most
\* one ever succeeds, none is attempted after a successful one, and every
\* attempt but the first follows a failed one (a failed call leaves the flag
\* unset and the next caller attempts the handshake again).
C5_OneHandshakeAtATime ==
    /\ Cardinality({t \in Tasks : tpc[t] = "hs_call"}) <= 1
    /\ net.hs_ok <= 1
    /\ net.hs_calls <= net.hs_err + 1
    /\ handshaked => \A t \in Tasks : tpc[t] \notin {"hs_cl_lock", "hs_call"}
    /\ net.hs_ok = 1 <=> handshaked

C5_Witness ==
    /\ net.hs_calls = 2
    /\ net.hs_err = 1
    /\ handshaked
    /\ \E t \in Tasks : tpc[t] = "hs_lock"

(***************************************************************************)
(* Claims about FlightSQLRows, checked under SpecRows.                     *)
(***************************************************************************)
\* What a sequence of frames pulled is to yield, in order: a data frame its
\* rows, a progress frame one progress event, a frame that does not decode
\* (and a transport error) one error.
RECURSIVE RowItems(_)
RowItems(rs) == IF rs = << >> THEN << >> ELSE << ItemRow(Head(rs)) >> \o RowItems(Tail(rs))

FrameItems(f) ==
    CASE f.kind = "transport_error" -> << ItemErr("transport") >>
      [] ~f.ok -> << ItemErr("decode") >>
      [] f.kind = "progress" -> << ItemProgress >>
      [] OTHER -> RowItems(f.rows)

RECURSIVE Flatten(_)
Flatten(fs) == IF fs = << >> THEN << >> ELSE FrameItems(Head(fs)) \o Flatten(Tail(fs))

Yielded == SelectSeq(out, LAMBDA x : x # End)

\* C6: the decoder preserves order: the items yielded so far, followed by the
\* rows still buffered, are the rows of the data frames pulled so far, frame
\* by frame and in batch order, with each progress event at the place its
\* frame was received.
C6_OrderPreserved == Yielded \o RowItems(rows) = Flatten(frames)

C6_Witness ==
    /\ frames = << [kind |-> "data", rows |-> << "a", "b" >>, ok |-> TRUE],
                   [kind |-> "progress", rows |-> << >>, ok |-> TRUE],
                   [kind |-> "data", rows |-> << "a" >>, ok |-> TRUE] >>
    /\ out = << ItemRow("a"), ItemRow("b"), ItemProgress, ItemRow("a"), End >>

\* C7 (as claimed): once the decoder has yielded an error, every later pull
\* returns end-of-sequence.
C7_ErrorEnds ==
    \A i, j \in 1..Len(out) : (i < j /\ out[i].kind = "Err") => out[j] = End

\* The same for transport errors alone.
C7_TransportErrorEnds ==
    \A i, j \in 1..Len(out) : (i < j /\ out[i] = ItemErr("transport")) => out[j] = End

\* C8: once the decoder has returned end-of-sequence, every later pull
\* returns end-of-sequence too.
C8_EndIsFinal ==
    \A i, j \in 1..Len(out) : (i < j /\ out[i] = End) => out[j] = End

C8_Witness ==
    /\ Len(out) >= 4
    /\ out[Len(out) - 2] = ItemRow("b")
    /\ out[Len(out) - 1] = End
    /\ out[Len(out)] = End
    /\ rows = << >>

(***************************************************************************)
(* Claims about from_dsn, checked under SpecDsn.                           *)
(***************************************************************************)
SslDisabled(d) == \E i \in 1..Len(d.pairs) : d.pairs[i] = << "sslmode", "disable" >>

\* C20: for every connection string from_dsn accepts, an explicit port is
\* used as given; with no explicit port the port is 80 and the scheme http
\* when sslmode=disable is among the pairs, 443 and https otherwise; the
\* endpoint is made of that scheme, the host and that port.
C20_PortFromDsn ==
    (IsSome(parsed) /\ ~IsSome(Unwrap(parsed).err)) =>
        LET d == Unwrap(dsn_given)
            c == Unwrap(parsed)
            scheme == IF SslDisabled(d) THEN "http" ELSE "https"
        IN /\ IsSome(d.port) => c.port = Unwrap(d.port)
           /\ (~IsSome(d.port) /\ SslDisabled(d)) => c.port = 80
           /\ (~IsSome(d.port) /\ ~SslDisabled(d)) => c.port = 443
           /\ c.endpoint = [scheme |-> scheme, host |-> d.host, port |-> c.port]

\* from_dsn has accepted a string with an explicit port 8000 and
\* sslmode=disable: the port stays 8000.
C20_Witness ==
    /\ IsSome(parsed)
    /\ ~IsSome(Unwrap(parsed).err)
    /\ Unwrap(dsn_given).port = Some(8000)
    /\ SslDisabled(Unwrap(dsn_given))
    /\ Unwrap(parsed).endpoint = [scheme |-> "http", host |-> Host, port |-> 8000]

(***************************************************************************)
(* Claims about the HTTP driver's errors and merges, checked under         *)
(* SpecHttp (C17 under SpecMerge).                                         *)
(***************************************************************************)
\* C11: a response of status OK whose decoded body carries an embedded
\* error is returned as InvalidResponse, with the embedded error, when it
\* answers the POST of query, and as InvalidPage when it answers a GET of
\* query_page (wait_for_query included); neither kind is returned for the
\* other request.  (insert_with_stage does not look at the error of the
\* body that answers its POST; the claim is about query.)
C11_EmbeddedErrorKind ==
    pc = "done" =>
        /\ (IsSome(hist.embedded) /\ op # "insert_with_stage") =>
              LET e == Unwrap(hist.embedded)
              IN result = (IF e.method = "POST"
                           THEN Err("InvalidResponse", e.code)
                           ELSE Err("InvalidPage", e.code))
        /\ (IsSome(hist.embedded) /\ Unwrap(hist.embedded).method = "GET") =>
              result = Err("InvalidPage", Unwrap(hist.embedded).code)
        /\ result.kind = "InvalidPage" =>
              /\ IsSome(hist.embedded)
              /\ Unwrap(hist.embedded).method = "GET"
        /\ (result.kind = "InvalidResponse" /\ op \in {"query", "query_wait"}
               /\ hist.statuses # << >> /\ hist.statuses[Len(hist.statuses)] = OK
               /\ hist.pages = 0) =>
              /\ IsSome(hist.embedded)
              /\ Unwrap(hist.embedded).method = "POST"

\* query_wait has fetched two pages and the second carried an embedded error.
C11_Witness ==
    /\ Returned("query_wait")
    /\ hist.pages = 2
    /\ IsSome(hist.embedded)
    /\ result.kind = "InvalidPage"

\* query has returned the embedded error of the body that answered its POST.
C11_WitnessQuery ==
    /\ Returned("query")
    /\ IsSome(hist.embedded)
    /\ result.kind = "InvalidResponse"
    /\ result.code = Unwrap(hist.embedded).code

\* C12: in query a failure other than a 503 ends the operation where it
\* first occurs.  A status that is neither OK nor 503 is the last status
\* received and no POST follows it; a POST whose send fails is the last POST
\* sent; and a status failure is returned as InvalidResponse with that
\* status as its code and the body's text as its message.
C12_FailureIsTerminal ==
    LET n == Len(hist.statuses)
        FirstFailureIsLast ==
            \A i \in 1..n :
                (hist.statuses[i] \notin {OK, SERVICE_UNAVAILABLE})
                    => (i = n /\ hist.posts = i /\ pc = "done")
        FailedSendIsLast ==
            /\ (pc = "post") => (hist.posts = n + 1)
            /\ (pc = "done" /\ result.kind = "Transport")
                  => (hist.posts = n + 1 /\ req = NoReq)
        StatusReturned ==
            (pc = "done" /\ hist.posts = n /\ hist.statuses[n] # OK)
                => (result = ErrText("InvalidResponse", hist.statuses[n], hist.text))
    IN (op = "query") => (FirstFailureIsLast /\ FailedSendIsLast /\ StatusReturned)

\* query has returned after a 503 followed by a 500, with the 500 and its
\* body, having sent two POSTs.
C12_Witness ==
    /\ Returned("query")
    /\ hist.statuses = << SERVICE_UNAVAILABLE, 500 >>
    /\ hist.posts = 2
    /\ result = ErrText("InvalidResponse", 500, "failed")

\* query has returned the transport error of its second POST.
C12_WitnessTransport ==
    /\ Returned("query")
    /\ hist.statuses = << SERVICE_UNAVAILABLE >>
    /\ hist.posts = 2
    /\ result = Err("Transport", 0)

\* C18: wait_for_query returns the schema of the initial response it was
\* given, whatever schema the pages it fetched carry.
C18_InitialSchemaKept ==
    (pc = "done" /\ op \in {"wait_for_query", "query_wait", "insert_with_stage"}
        /\ result.tag = "Ok")
        => result.resp.schema = hist.schema0

\* wait_for_query has returned after two pages, the last of a schema other
\* than the initial response's.
C18_Witness ==
    /\ Returned("wait_for_query")
    /\ result.tag = "Ok"
    /\ hist.pages = 2
    /\ hist.page_schema # hist.schema0
    /\ result.resp.schema = hist.schema0

\* Deltas handle_session is applied to in C17: those the server of the model
\* sends, and one giving x a third value and y a second.
UpsertDeltas ==
    SessionDeltas \cup
    { Some([database |-> None,
            settings |-> Some([k \in {"x", "y"} |-> IF k = "x" THEN "2" ELSE "1"])]) }

DeltaSettings(d) ==
    IF IsSome(d) /\ IsSome(Unwrap(d).settings) THEN Unwrap(Unwrap(d).settings) ELSE EmptyMap

\* One merge upserts: every key of the map stays, a key of the delta other
\* than warehouse gets the delta's value, every other key keeps its value.
Upserted(before, d, after) ==
    /\ DOMAIN before \subseteq DOMAIN after
    /\ \A k \in DOMAIN after :
          IF k \in DOMAIN DeltaSettings(d) /\ k # "warehouse"
          THEN after[k] = DeltaSettings(d)[k]
          ELSE k \in DOMAIN before /\ after[k] = before[k]

\* C17: handle_session never removes a key of the settings map.  In every
\* state a merge of any delta keeps every key, gives the keys the delta
\* contains the delta's values and leaves the others as they were; and every
\* step of the client either leaves the map alone or is such a merge of a
\* delta the server sent, so the key set only grows and a key's value is that
\* of the last delta that contained it, or the connection string's.
C17_SettingsOnlyUpserted ==
    /\ [](\A d \in UpsertDeltas :
             Upserted(session_settings, d, handle_session(Store, d).settings))
    /\ [][ /\ DOMAIN session_settings \subseteq DOMAIN session_settings'
           /\ \/ session_settings' = session_settings
              \/ \E d \in SessionDeltas :
                    /\ session_settings' = handle_session(Store, d).settings
                    /\ Upserted(session_settings, d, session_settings') ]_vars

\* A merge has kept the connection string's y, replaced its x by the delta's
\* and left warehouse out of the map.
C17_Witness ==
    /\ pc = "done"
    /\ result.tag = "Ok"
    /\ IsSome(result.resp.session)
    /\ IsSome(Unwrap(result.resp.session).settings)
    /\ session_settings = [k \in {"x", "y"} |-> IF k = "x" THEN "1" ELSE "0"]
    /\ hist.merged.settings = session_settings

(***************************************************************************)
(* Further claims about FlightSQLConnection, checked under SpecFlight.     *)
(***************************************************************************)
\* C16: exec and query_iter_ext send a statement (execute_update, or
\* prepare / execute / do_get) only on a handshaked connection: no statement
\* was ever sent with the flag unset, a task that is about to send one or is
\* awaiting one sees the flag set, and the flag is set only after a handshake
\* call has succeeded.
C16_StatementsAfterHandshake ==
    /\ net.unshaken = 0
    /\ net.stmts > 0 => net.hs_ok >= 1
    /\ handshaked => net.hs_ok >= 1
    /\ \A t \in Tasks :
          tpc[t] \in {"cl_lock", "update", "prepare", "execute", "do_get", "schema"}
              => handshaked

\* A handshake call failed, a later one succeeded, and a statement was sent.
C16_Witness ==
    /\ net.hs_err >= 1
    /\ net.hs_ok >= 1
    /\ net.stmts >= 1
    /\ \E t \in Tasks : tpc[t] \in {"update", "prepare"}

(***************************************************************************)
(* Claims about upload_to_stage, checked under SpecStage.                  *)
(***************************************************************************)
\* A PRESIGN result of exactly one row of three columns, the first "PUT".
OnePutRow(rws) ==
    /\ Len(rws) = 1
    /\ Len(Columns(rws[1])) = 3
    /\ Columns(rws[1])[1] = "PUT"

\* C13 (as claimed): on the presigned path the upload is sent only if the
\* fully paginated PRESIGN result (the rows of the initial response and of
\* every page) is exactly one row of three columns whose first is "PUT";
\* otherwise no upload request is issued.
C13_UploadOnlyForOnePutRow ==
    (op = "upload_to_stage" /\ hist.presigned_puts > 0) => OnePutRow(hist.received)

\* What the code does check: the rows wait_for_query accumulated (without
\* those of the first page fetched, see C1) are one such row; with any other
\* accumulation the operation returns Error::Request having sent no PUT.
C13_UploadOnlyForOneAccumulatedRow ==
    op = "upload_to_stage" =>
        /\ hist.presigned_puts > 0 =>
              \E i \in 1..Len(hist.received) :
                  OnePutRow(<< hist.received[i] >>)
        /\ (pc = "done" /\ result.kind = "Request" /\ ~presigned_url_disabled)
              => hist.presigned_puts = 0

C15_WitnessPresigned ==
    /\ Returned("upload_to_stage")
    /\ ~presigned_url_disabled
    /\ hist.presigned_puts = 1
    /\ hist.pages = 2
    /\ result.tag = "Ok"

(***************************************************************************)
(* Claims about FlightSQLConnection::get_presigned_url, under SpecUrl.     *)
(***************************************************************************)
\* The rows the PRESIGN statement yields: those of the data frames pulled
\* and of the data frames the stream still holds.
RECURSIVE FrameRows(_)
FrameRows(fs) ==
    IF fs = << >> THEN << >>
    ELSE (IF Head(fs).kind = "data" /\ Head(fs).ok THEN Head(fs).rows ELSE << >>)
         \o FrameRows(Tail(fs))

StatementRows == FrameRows(frames) \o FrameRows(data.frames)

\* C14 (as claimed): get_presigned_url succeeds only when the statement
\* yields exactly one row, of three string columns, and then returns an
\* empty header mapping.
C14_OnlyOneRowOfThree ==
    (IsSome(presigned) /\ Unwrap(presigned).tag = "Ok") =>
        /\ Len(StatementRows) = 1
        /\ Len(RowColumns(StatementRows[1])) = 3
        /\ Unwrap(presigned).headers = EmptyMap

\* What the code does check: the first row is of three string columns; no
\* row at all is InvalidResponse, a first row of another width is Parsing;
\* the headers returned are empty.
C14_FirstRowOfThree ==
    IsSome(presigned) =>
        LET p == Unwrap(presigned)
            first == SelectSeq(out, LAMBDA x : x.kind \in {"Row", "Err", "End"})
        IN /\ p.tag = "Ok" =>
                 /\ first # << >>
                 /\ first[1].kind = "Row"
                 /\ Len(RowColumns(first[1].v)) = 3
                 /\ p.headers = EmptyMap
                 /\ p.method = RowColumns(first[1].v)[1]
                 /\ p.url = RowColumns(first[1].v)[3]
           /\ (first # << >> /\ first[1].kind = "End") => p.kind = "InvalidResponse"
           /\ (first # << >> /\ first[1].kind = "Row"
                  /\ Len(RowColumns(first[1].v)) # 3) => p.kind = "Parsing"

(***************************************************************************)
(* Claims about tasks sharing an APIClient, checked under SpecSession.     *)
(***************************************************************************)
InFlight == {t \in QueryTasks : qt[t].pc = "inflight"}

\* The tasks that are past acquiring the settings lock and before dropping it.
HoldsSettings(t) == qt[t].pc \in {"ms_database", "hs_database", "hs_warehouse"}

\* C19 (as claimed): two tasks running query on one APIClient serialize
\* through the session locks, so at most one round trip is in flight.
C19_OneRoundTripInFlight == Cardinality(InFlight) <= 1

\* C19 (amended): the tasks serialize their accesses to the session store
\* only.  At most one task is inside a section guarded by the settings lock
\* (the snapshot of make_session, the merge of handle_session), and it is
\* the owner of that lock; a task whose request is in flight holds no
\* session lock.
C19_StoreAccessSerialized ==
    /\ Cardinality({t \in QueryTasks : HoldsSettings(t)}) <= 1
    /\ \A t \in QueryTasks : HoldsSettings(t) <=> locks.settings = Some(t)
    /\ \A t \in InFlight :
          /\ locks.settings # Some(t)
          /\ locks.database # Some(t)
          /\ locks.warehouse # Some(t)

\* Two tasks have their requests in flight at once, while a third party
\* could take every session lock.
C19_Witness ==
    /\ Cardinality(InFlight) = 2
    /\ locks = NoLocks

\* ---------------------------------------------------------------------
\* Locks held at the suspension points of the session-store operations.
\* Every state of SpecSession has each task at an await (or idle).

LockNames == {"settings", "database", "warehouse"}

\* The locks whose guard task t holds.
HeldBy(t) == {n \in LockNames : locks[n] = Some(t)}

\* C21: no session-store operation (the merge of handle_session, the
\* snapshot of make_session, make_headers, current_database,
\* current_warehouse) holds more than one of the three locks while it waits
\* at a suspension point, the wait for another of these locks included: the
\* guards of the database and warehouse locks are dropped before the next
\* await, only the guard of the settings lock is held across one.
C21_AtMostOneLockHeld ==
    /\ \A t \in QueryTasks : Cardinality(HeldBy(t)) <= 1
    /\ locks.database = None
    /\ locks.warehouse = None

\* A merge that has written the database waits for the warehouse lock with
\* the settings lock held, while another task waits for the warehouse lock
\* in current_warehouse.
C21_Witness ==
    \E t, u \in QueryTasks :
        /\ qt[t].pc = "hs_warehouse"
        /\ IsSome(Unwrap(qt[t].delta).database)
        /\ HeldBy(t) = {"settings"}
        /\ qt[u].pc = "cw_warehouse"

\* ---------------------------------------------------------------------
\* kill_query, and the client used for query, query_page and kill_query.

KillUri == "/v1/query/q/kill"

\* kill_query, client.rs 260-268: build the headers and send the POST.
StartKillQuery ==
    /\ pc = "idle"
    /\ op' = "kill_query"
    /\ pc' = "kill"
    /\ req' = [method |-> "POST", uri |-> KillUri, sql |-> "",
               warehouse |-> make_headers(Store), session |-> None]
    /\ hist' = [StartHist(Store) EXCEPT !.posts = 1]
    /\ UNCHANGED << database, warehouse, session_settings, retries, delays, wfq,
                    result, outsideHttp >>

\* kill_query, client.rs 262-268: send() fails.
KillTransportError ==
    /\ pc = "kill"
    /\ Return(Store, hist, Err("Transport", 0))
    /\ UNCHANGED op

\* kill_query, client.rs 269-275: a status other than OK.
KillStatus ==
    /\ pc = "kill"
    /\ \E status \in FailStatuses, text \in Texts :
         Return(Store, [hist EXCEPT !.statuses = Append(@, status), !.text = text],
                ErrText("InvalidResponse", status, "kill query failed: " \o text))
    /\ UNCHANGED op

\* kill_query, client.rs 269-276: status OK.
KillOk ==
    /\ pc = "kill"
    /\ Return(Store, hist, Ok(NoResp))
    /\ UNCHANGED op

\* Connection strings that may name a warehouse.
HeaderDsns == [host : {Host}, port : {None}, path : {"", "test"},
               pairs : UNION {[1..n -> { << "warehouse", "wh" >>, << "x", "0" >> }] :
                                 n \in 0..MaxDsnPairs}]

InitHeaders == InitHttpFrom(HeaderDsns)

NextHeaders ==
    \/ StartQuery
    \/ StartQueryPage
    \/ StartKillQuery
    \/ PostTransportError
    \/ PostStatus
    \/ PostBadBody
    \/ PostOk
    \/ GetTransportError
    \/ GetStatus
    \/ GetBadBody
    \/ GetOk
    \/ KillTransportError
    \/ KillStatus
    \/ KillOk
    \/ Finish

SpecHeaders == InitHeaders /\ [][NextHeaders]_vars

\* The task has built a request whose reply has not been handled.
RequestSent == pc \in {"post", "get", "kill"}

\* C22: every request of query, query_page and kill_query carries as
\* X-DATABEND-WAREHOUSE the value the store's warehouse slot holds when the
\* request is built (no header when the slot is empty): a request built
\* after a merge that set the warehouse to wh2 sends wh2, whatever the
\* connection string gave.  The store changes only when a reply is
\* handled, so a request that is out carries the store's value.
C22_HeaderFromStore ==
    /\ [](RequestSent => req.warehouse = warehouse)
    /\ [][pc = "idle" /\ pc' # "idle" => req'.warehouse = warehouse]_vars

\* Each of the three operations has sent a request with the warehouse a
\* merge has set.
C22_Witness ==
    /\ op = "kill_query"
    /\ pc = "kill"
    /\ req.warehouse = Some("wh2")

C22_WitnessQuery ==
    /\ op = "query"
    /\ pc = "post"
    /\ req.warehouse = Some("wh2")

C22_WitnessQueryPage ==
    /\ op = "query_page"
    /\ pc = "get"
    /\ req.warehouse = Some("wh2")
    /\ session_settings = [k \in {"x"} |-> "1"]

\* ---------------------------------------------------------------------
\* The store when query or query_page returns an error.  Either call makes
\* one round trip and touches the store only in the step that returns, so
\* the store before that step is the store before the call.

\* Operation o returns in this step, with an error.
ReturnsErr(o) ==
    /\ op = o
    /\ pc # "done"
    /\ pc' = "done"
    /\ result'.tag = "Err"

\* C23: session state is merged only on success: when query or query_page
\* returns an error (the send failed, a status other than OK, an error
\* embedded in the body) the database, the warehouse and the settings of
\* the store are what they were before the call.
C23_MergedOnlyOnSuccess ==
    [][ReturnsErr("query") \/ ReturnsErr("query_page")
         => UNCHANGED << database, warehouse, session_settings >>]_vars

\* The part of C23 that holds: query returns an error with the store
\* untouched, and so does query_page when the error is not one embedded in
\* a decoded body.
C23_QueryMergesOnlyOnSuccess ==
    [][ReturnsErr("query") \/ (ReturnsErr("query_page") /\ result'.kind # "InvalidPage")
         => UNCHANGED << database, warehouse, session_settings >>]_vars

\* ---------------------------------------------------------------------
\* Progress of the session-store operations.  tokio's Mutex hands the lock
\* to its waiters in the order they asked, so a task waiting for a lock
\* that is released again and again gets it: strong fairness of the steps
\* that acquire a lock.  A request that is out is answered (or fails):
\* fairness of the steps that handle the reply, which stay enabled until
\* one is taken.  A task waits at one place at a time, so one condition on
\* the steps of a task past the start of its call says both.  Nothing
\* obliges a task to start a call.

\* The step of task t that acquires the lock it waits for.
Acquire(t) ==
    \/ make_session_lock(t)
    \/ make_session_read(t)
    \/ make_headers_send(t)
    \/ handle_session_lock(t)
    \/ handle_session_database(t)
    \/ handle_session_warehouse(t)
    \/ current_database(t)
    \/ current_warehouse(t)

\* The step of task t that handles the reply to its request.
Reply(t) ==
    \/ query_resend(t)
    \/ query_failed(t)
    \/ query_ok(t)

\* The client of a connection string without pairs: what the store holds
\* does not bear on which steps are enabled.
PlainDsns == [host : {Host}, port : {None}, path : {"test"}, pairs : { << >> }]

InitSessionFair == InitSessionFrom(PlainDsns)

SpecSessionFair ==
    /\ InitSessionFair
    /\ [][NextSession]_vars
    /\ \A t \in QueryTasks : SF_vars(Acquire(t) \/ Reply(t))

\* The lock task t waits for, "" when it waits for none.
WaitsFor(t) ==
    CASE qt[t].pc \in {"ms_settings", "hs_settings"} -> "settings"
      [] qt[t].pc \in {"ms_database", "hs_database", "cd_database"} -> "database"
      [] qt[t].pc \in {"mh_warehouse", "hs_warehouse", "cw_warehouse"} -> "warehouse"
      [] OTHER -> ""

\* C24: any interleaving of concurrent handle_session, make_session,
\* make_headers, current_database and current_warehouse calls is free of
\* deadlock.  The locks are taken in an order without a cycle: a task that
\* waits for the settings lock holds no lock, a task that waits for the
\* database or the warehouse lock holds at most the settings lock, and the
\* database and warehouse locks are never held together; and every call
\* that has begun completes.  (The tasks run the same code on the same
\* client, so progress is stated for the first of them.)
C24_EveryCallCompletes ==
    /\ [](\A t \in QueryTasks :
            /\ WaitsFor(t) = "settings" => HeldBy(t) = {}
            /\ WaitsFor(t) \in {"database", "warehouse"} => HeldBy(t) \subseteq {"settings"})
    /\ [](locks.database = None \/ locks.warehouse = None)
    /\ qt[1].pc # "idle" ~> qt[1].pc = "idle"

\* A merge waits for the warehouse lock holding the settings lock while the
\* other task waits for the settings lock in make_session.
C24_Witness ==
    \E t, u \in QueryTasks :
        /\ qt[t].pc = "hs_warehouse"
        /\ locks.settings = Some(t)
        /\ qt[u].pc = "ms_settings"

\* ---------------------------------------------------------------------
\* What make_session reads while merges run.

\* The tasks inside handle_session, past acquiring the settings lock.
Merging == {u \in QueryTasks : IsSome(qt[u].pre)}

\* The store before and after the whole merge task u is running.
MergeBefore(u) == Unwrap(qt[u].pre)

MergeAfter(u) == handle_session(Unwrap(qt[u].pre), qt[u].delta)

\* Task t takes its snapshot in this step: make_session reads the database
\* and the settings of the store as it is before the step.
TakesSnapshot(t) == qt[t].pc = "ms_database" /\ qt'[t].pc = "mh_warehouse"

\* C25: the snapshot of make_session never observes a half-applied merge:
\* the {database, settings} pair it returns is that of the store entirely
\* before or entirely after any handle_session call running at the time,
\* never the new database with the old settings or the reverse.
C25_SnapshotNotHalfMerged ==
    [][\A t \in QueryTasks :
         TakesSnapshot(t) =>
            \A u \in Merging :
               make_session(Store) \in {make_session(MergeBefore(u)),
                                        make_session(MergeAfter(u))}]_vars

\* A merge of a delta with a database, a warehouse and a setting is half
\* applied (the database written, the setting not yet) and waits for the
\* warehouse lock, while the other task has called make_session.
C25_Witness ==
    \E t, u \in QueryTasks :
        /\ qt[u].pc = "hs_warehouse"
        /\ database # MergeBefore(u).database
        /\ session_settings # MergeAfter(u).settings
        /\ qt[t].pc = "ms_settings"

\* ---------------------------------------------------------------------
\* The handshaked flag of a FlightSQLConnection, checked under SpecFlight.

\* The handshake call of task t fails in this step.
HandshakeFails(t) ==
    /\ tpc[t] = "hs_call"
    /\ tpc'[t] # "hs_call"
    /\ net'.hs_err = net.hs_err + 1

\* C26: the handshaked flag is true only if a handshake call on the
\* connection has completed successfully, and once true it is never reset;
\* a handshake call that fails leaves the flag false, returns its error to
\* the caller without the caller's statement being sent, and releases both
\* locks, so that a later operation can attempt the handshake again.
C26_FlagSetBySuccessOnly ==
    /\ [](handshaked => net.hs_ok >= 1)
    /\ [](\A t \in Tasks : tpc[t] = "hs_call" => ~handshaked)
    /\ [][handshaked => handshaked']_vars
    /\ [][\A t \in Tasks :
            HandshakeFails(t) =>
               /\ ~handshaked'
               /\ tpc'[t] = "idle"
               /\ net'.stmts = net.stmts
               /\ hs_lock' = None
               /\ cl_lock' = None]_vars

\* After a failed handshake call a later operation has taken both locks
\* again and its handshake call is out.
C26_Witness ==
    /\ net.hs_err >= 1
    /\ ~handshaked
    /\ \E t \in Tasks :
          /\ tpc[t] = "hs_call"
          /\ hs_lock = Some(t)
          /\ cl_lock = Some(t)
    /\ net.stmts = 0

\* A later handshake call has succeeded after a failed one.
C26_WitnessRetried ==
    /\ net.hs_err >= 1
    /\ net.hs_ok = 1
    /\ handshaked
    /\ hs_lock = None

\* ---------------------------------------------------------------------
\* Progress of the operations of a FlightSQLConnection.  tokio's Mutex is
\* fair to its waiters: strong fairness of the steps that acquire a lock.
\* Every network call returns: fairness of the steps that handle its
\* return, which stay enabled until one is taken.  A task waits at one place
\* at a time, so one condition on the steps of a task past the start of its
\* operation says both.  Nothing obliges a task to start an operation.

\* A step of task t past the start of its operation.
FlightStep(t) ==
    \/ handshake_lock(t)
    \/ handshake_call(t)
    \/ handshake_ok(t)
    \/ handshake_err(t)
    \/ statement_call(t)
    \/ exec_done(t)
    \/ query_iter_ext_step(t)
    \/ query_iter_ext_done(t)

SpecFlightFair ==
    /\ InitFlight
    /\ [][NextFlight]_vars
    /\ \A t \in Tasks : SF_vars(FlightStep(t))

\* C27: any interleaving of concurrent exec and query_iter_ext calls (and
\* of query_row, get_presigned_url and upload_to_stage, which reach the
\* locks through query_iter_ext) is free of deadlock.  The handshaked lock
\* is taken only by a task that holds no lock, the client lock by a task
\* that holds at most the handshaked lock; and, every network call
\* returning, every operation that has begun completes.
C27_EveryOperationCompletes ==
    /\ [](\A t \in Tasks :
            /\ tpc[t] = "hs_lock" => hs_lock # Some(t) /\ cl_lock # Some(t)
            /\ tpc[t] \in {"hs_cl_lock", "cl_lock"} => cl_lock # Some(t)
            /\ tpc[t] = "cl_lock" => hs_lock # Some(t)
            /\ tpc[t] = "idle" => hs_lock # Some(t) /\ cl_lock # Some(t))
    /\ \A t \in Tasks : tpc[t] # "idle" ~> tpc[t] = "idle"

\* One task holds both locks with its handshake call out, the other waits
\* for the handshaked lock.
C27_Witness ==
    \E t, u \in Tasks :
        /\ tpc[t] = "hs_call"
        /\ hs_lock = Some(t)
        /\ cl_lock = Some(t)
        /\ tpc[u] = "hs_lock"

\* One task holds the client lock for its statement while the other waits
\* for it.
C27_WitnessStatement ==
    \E t, u \in Tasks :
        /\ tpc[t] \in {"update", "prepare", "execute", "do_get", "schema"}
        /\ cl_lock = Some(t)
        /\ tpc[u] = "cl_lock"

====
